---- MODULE Spec2Model ----
(***************************************************************************)
(* The chat page component of web/app/page.tsx as a state machine.         *)
(*                                                                         *)
(* State: the four useState cells (question, loading, error, messages),    *)
(* the position of the mount effect's fetchWelcome, and the POST requests  *)
(* that sendQuestion has issued and that have not settled yet.  Every UI   *)
(* event handler and every settlement of a fetch is one action: React      *)
(* runs a handler (and the continuation of an await) to completion on the  *)
(* single event loop and re-renders before the next event is delivered.    *)
(*                                                                         *)
(* Strings are sequences of one-character strings, so that trim() and      *)
(* template concatenation are computed rather than assumed.  null and      *)
(* undefined are the one-element sequence Null, whose element is no        *)
(* character of the alphabet.                                              *)
(***************************************************************************)
EXTENDS Integers, Sequences, FiniteSets, TLC

\* Bound of the model: the submissions that pass validation in one session.
MaxSubmits == 2

-----------------------------------------------------------------------------
(* Values *)

Null == <<"null">>

\* What the user types into the textarea: nothing, white space only, a
\* plain text, and a text with white space around it.
Texts == { <<>>, <<" ">>, <<"a">>, <<" ", "a", " ">> }

IsSpace(c) == c = " "

RECURSIVE TrimStart(_)
TrimStart(s) ==
    IF s # <<>> /\ IsSpace(Head(s)) THEN TrimStart(Tail(s)) ELSE s

RECURSIVE TrimEnd(_)
TrimEnd(s) ==
    IF s # <<>> /\ IsSpace(s[Len(s)]) THEN TrimEnd(SubSeq(s, 1, Len(s) - 1)) ELSE s

\* A mutant of Trim: the text is used untrimmed.
TrimNothing(s) == s

\* String.prototype.trim
Trim(s) == TrimEnd(TrimStart(s))

\* JavaScript truthiness of a string | null value.
Truthy(v) == v # Null /\ v # <<>>

\* Confidence is kept in hundredths: 100 is 1.0.
FallbackConfidence == 100

ChatResponse(a, c, s, k, f) ==
    [answer |-> a, confidence |-> c, sources |-> s, cached |-> k, follow_up |-> f]

\* The bodies the server answers with (GET and POST share the shape).  The
\* follow-up the server suggests is written with a letter the user does not
\* type, so that a turn's text tells where its question came from.
Replies ==
    { ChatResponse(<<"a">>, 90, <<"doc">>, TRUE, <<" ">>),
      ChatResponse(Null, 50, <<>>, FALSE, <<" ", "b">>),
      ChatResponse(Null, 0, <<>>, FALSE, Null) }

\* The ways a fetch fails: it rejects, it resolves with a non-2xx status, or
\* its body does not parse.
Failures ==
    { [kind |-> "network", status |-> <<>>, body |-> <<>>],
      [kind |-> "http", status |-> <<"5", "0", "0">>, body |-> <<"a">>],
      [kind |-> "parse", status |-> <<>>, body |-> <<>>] }

WelcomeFallbackText == <<"Hi there! I'm Chatty, how can I assist you today?">>

WelcomeDefaultText == <<"Hi there!">>

ValidationMessage == <<"Please enter a question.">>

UnknownError == <<"Unknown error">>

\* A message made without a meta property.
NoMeta == [undefined |-> TRUE]

\* The mount effect is call 0; the submissions are calls 1, 2, ...
WelcomeCall == 0

-----------------------------------------------------------------------------
VARIABLES
    question,   \* useState: the draft in the textarea
    loading,    \* useState: the awaiting-response flag
    error,      \* useState: the error indicator's text, or Null
    messages,   \* useState: the message list
    welcome,    \* fetchWelcome: "pending", then "ok" or "failed"
    inflight,   \* the POST requests issued and not settled
    started,    \* history: the POST requests issued, in the order of issue
    outcome,    \* history: per submission "pending", then "ok" or "failed"
    lastSend    \* history: the most recent call of sendQuestion

vars ==
    <<question, loading, error, messages, welcome, inflight, started, outcome, lastSend>>

\* A call of sendQuestion: its argument, whether the draft it found held
\* anything, and the number of the submission it started (0 when it returned
\* at the validation).
Sent(q, draft, call) == [q |-> q, hadDraft |-> draft # <<>>, call |-> call]

Init ==
    /\ question = <<>>
    /\ loading = FALSE
    /\ error = Null
    /\ messages = <<>>
    /\ welcome = "pending"
    /\ inflight = {}
    /\ started = <<>>
    /\ outcome = <<>>
    /\ lastSend = Sent(Null, <<>>, 0)

-----------------------------------------------------------------------------
(* Helpers of the component *)

\* Mutants of pushMessage: the new list holds the new message alone, and
\* the new message is put in front.
pushMessageAlone(prev, msg) == <<msg>>

pushMessageFront(prev, msg) == <<msg>> \o prev

\* setMessages((prev) => [...prev, msg])
pushMessage(prev, msg) == Append(prev, msg)

\* makeId(prefix): the prefix and a part unique to the call that made it.
makeId(prefix, call) == <<prefix, call>>

Message(id, from, text, meta) ==
    [id |-> id, from |-> from, text |-> text, meta |-> meta]

\* A mutant of EffectiveQuestion: a non-empty draft wins over the argument.
EffectiveQuestionDraftFirst(q, draft) == IF draft # <<>> THEN draft ELSE q

\* q ?? question
EffectiveQuestion(q, draft) == IF q = Null THEN draft ELSE q

\* A mutant of BotText: the follow-up is looked at before the answer.
BotTextFollowUpFirst(data) ==
    IF data.follow_up # Null THEN data.follow_up
    ELSE IF data.answer # Null THEN data.answer
    ELSE <<"I don't know.">>

\* data.answer ?? data.follow_up ?? "I don't know."
BotText(data) ==
    IF data.answer # Null THEN data.answer
    ELSE IF data.follow_up # Null THEN data.follow_up
    ELSE <<"I don't know.">>

\* The Error a failed fetch raises inside the try block.
ThrownBy(f) ==
    CASE f.kind = "network" -> [message |-> <<"Failed to fetch">>]
      [] f.kind = "http" -> [message |-> <<"Server ">> \o f.status \o <<": ">> \o f.body]
      [] f.kind = "parse" -> [message |-> <<"Unexpected token">>]

\* err?.message ?? "Unknown error"; what the try block throws is an Error.
ErrMessage(err) == IF err.message = Null THEN UnknownError ELSE err.message

\* A mutant of SystemText: the bare message.
SystemTextBare(err) == ErrMessage(err)

\* `Error: ${err?.message ?? "Unknown error"}`
SystemText(err) == <<"Error: ">> \o ErrMessage(err)

\* A mutant of LoadingAfterFinally: the flag is left as it was.
LoadingKept(l) == l

\* finally { setLoading(false) }
LoadingAfterFinally(l) == FALSE

\* The reply the catch block of fetchWelcome shows.
FallbackReply ==
    ChatResponse(WelcomeFallbackText, FallbackConfidence, <<>>, FALSE, Null)

\* isBot && m.meta?.follow_up: the message shows a follow-up button.
FollowUpRendered(m) == m.from = "bot" /\ m.meta # NoMeta /\ Truthy(m.meta.follow_up)

-----------------------------------------------------------------------------
(* The mount effect *)

WelcomeOk(data) ==
    /\ welcome = "pending"
    /\ welcome' = "ok"
    /\ messages' = pushMessage(messages,
            Message(makeId("b_", WelcomeCall), "bot",
                    IF Truthy(data.answer) THEN data.answer ELSE WelcomeDefaultText,
                    data))
    /\ UNCHANGED <<question, loading, error, inflight, started, outcome, lastSend>>

WelcomeFail(f) ==
    /\ welcome = "pending"
    /\ welcome' = "failed"
    /\ messages' = pushMessage(messages,
            Message(makeId("b_", WelcomeCall), "bot", WelcomeFallbackText, FallbackReply))
    /\ UNCHANGED <<question, loading, error, inflight, started, outcome, lastSend>>

-----------------------------------------------------------------------------
(* sendQuestion, up to its await *)

Request(call, text) == [call |-> call, user_id |-> "web_user", question |-> text]

sendQuestion(q) ==
    LET questionText == Trim(EffectiveQuestion(q, question))
        call == Len(started) + 1
    IN  /\ UNCHANGED welcome
        /\ IF questionText = <<>>
           THEN /\ error' = ValidationMessage
                /\ lastSend' = Sent(q, question, 0)
                /\ UNCHANGED <<question, loading, messages, inflight, started, outcome>>
           ELSE /\ call <= MaxSubmits
                /\ error' = Null
                /\ loading' = TRUE
                /\ messages' = pushMessage(messages,
                       Message(makeId("u_", call), "user", questionText, NoMeta))
                /\ question' = <<>>
                /\ inflight' = inflight \cup {Request(call, questionText)}
                /\ started' = Append(started, Request(call, questionText))
                /\ outcome' = Append(outcome, "pending")
                /\ lastSend' = Sent(q, question, call)

(* sendQuestion, from the await on.  The awaits of resp.text() and          *)
(* resp.json() that follow the fetch change no state of the component, so  *)
(* the continuation is one step, taken when the last of them settles: it   *)
(* runs the rest of the try block, or the catch block, and then finally.   *)

SettleOk(r, data) ==
    /\ r \in inflight
    /\ inflight' = inflight \ {r}
    /\ messages' = pushMessage(messages,
            Message(makeId("b_", r.call), "bot", BotText(data), data))
    /\ loading' = LoadingAfterFinally(loading)
    /\ outcome' = [outcome EXCEPT ![r.call] = "ok"]
    /\ UNCHANGED <<question, error, welcome, started, lastSend>>

SettleFail(r, f) ==
    /\ r \in inflight
    /\ inflight' = inflight \ {r}
    /\ error' = ErrMessage(ThrownBy(f))
    /\ messages' = pushMessage(messages,
            Message(makeId("s_", r.call), "system", SystemText(ThrownBy(f)), NoMeta))
    /\ loading' = LoadingAfterFinally(loading)
    /\ outcome' = [outcome EXCEPT ![r.call] = "failed"]
    /\ UNCHANGED <<question, welcome, started, lastSend>>

-----------------------------------------------------------------------------
(* The rendered controls *)

\* textarea onChange; the textarea is disabled while loading.
TypeDraft(t) ==
    /\ ~loading
    /\ question' = t
    /\ UNCHANGED <<loading, error, messages, welcome, inflight, started, outcome, lastSend>>

\* The Clear button, disabled while loading.
ClickClear ==
    /\ ~loading
    /\ question' = <<>>
    /\ UNCHANGED <<loading, error, messages, welcome, inflight, started, outcome, lastSend>>

\* The Send button, disabled while loading.
ClickSend ==
    /\ ~loading
    /\ sendQuestion(Null)

\* onKeyDown with Enter and no Shift, in the textarea.
PressEnter ==
    /\ ~loading
    /\ sendQuestion(Null)

\* The follow-up button of message i; it carries no disabled attribute.
ClickFollowUp(i) ==
    /\ FollowUpRendered(messages[i])
    /\ sendQuestion(messages[i].meta.follow_up)

-----------------------------------------------------------------------------
Settle ==
    \E r \in inflight :
        \/ \E data \in Replies : SettleOk(r, data)
        \/ \E f \in Failures : SettleFail(r, f)

Next ==
    \/ \E data \in Replies : WelcomeOk(data)
    \/ \E f \in Failures : WelcomeFail(f)
    \/ \E t \in Texts : TypeDraft(t)
    \/ ClickClear
    \/ ClickSend
    \/ PressEnter
    \/ \E i \in DOMAIN messages : ClickFollowUp(i)
    \/ Settle

Spec == Init /\ [][Next]_vars

\* Every request the browser has issued settles: fetch resolves or rejects.
FairSpec == Spec /\ WF_vars(Settle)

-----------------------------------------------------------------------------
(* Vocabulary of the properties, stated without the component's helpers *)

Last(seq) == seq[Len(seq)]

IsPrefix(a, b) == Len(a) <= Len(b) /\ SubSeq(b, 1, Len(a)) = a

\* s is empty or holds white space only.
IsBlank(s) == \A i \in DOMAIN s : s[i] = " "

\* t is s without the white space at its two ends.
IsTrimOf(t, s) ==
    /\ t = <<>> \/ (t[1] # " " /\ t[Len(t)] # " ")
    /\ \E i \in 0..Len(s) :
          /\ i + Len(t) <= Len(s)
          /\ SubSeq(s, i + 1, i + Len(t)) = t
          /\ IsBlank(SubSeq(s, 1, i))
          /\ IsBlank(SubSeq(s, i + Len(t) + 1, Len(s)))

\* The turns a call pushed: the call is the second part of the turn's id.
TurnsOf(call) == {i \in DOMAIN messages : messages[i].id[2] = call}

UserTurnsOf(call) == {i \in TurnsOf(call) : messages[i].from = "user"}

ReplyTurnsOf(call) == TurnsOf(call) \ UserTurnsOf(call)

\* The follow-up texts on the screen.
RenderedFollowUps ==
    {messages[i].meta.follow_up : i \in {j \in DOMAIN messages : FollowUpRendered(messages[j])}}

\* This step is a call of sendQuestion that passed the validation.
StartStep == Len(started') = Len(started) + 1

\* This step is the settlement of a POST request.
SettleStep == Len(started') = Len(started) /\ inflight' # inflight

-----------------------------------------------------------------------------
(* C1 *)

C1_Turns ==
    /\ Len(outcome) = Len(started)
    /\ \A i \in DOMAIN messages : messages[i].id[2] \in 0..Len(started)
    /\ \A c \in DOMAIN started :
          /\ Cardinality(UserTurnsOf(c)) = 1
          /\ \A i \in UserTurnsOf(c) :
                /\ messages[i].text = started[c].question
                /\ messages[i].text # <<>>
                /\ IsTrimOf(messages[i].text, messages[i].text)
                /\ \A j \in ReplyTurnsOf(c) : i < j
          /\ outcome[c] = "pending" =>
                started[c] \in inflight /\ ReplyTurnsOf(c) = {}
          /\ outcome[c] # "pending" =>
                /\ started[c] \notin inflight
                /\ Cardinality(ReplyTurnsOf(c)) = 1
                /\ \A j \in ReplyTurnsOf(c) :
                      messages[j].from = (IF outcome[c] = "ok" THEN "bot" ELSE "system")

C1_Start ==
    StartStep =>
        /\ Len(messages') = Len(messages) + 1
        /\ IsPrefix(messages, messages')
        /\ Last(messages').from = "user"
        /\ \/ ~loading /\ IsTrimOf(Last(messages').text, question)
           \/ \E y \in RenderedFollowUps : IsTrimOf(Last(messages').text, y)
        /\ Last(started').question = Last(messages').text
        /\ inflight' = inflight \cup {Last(started')}

C1_Settle ==
    SettleStep =>
        /\ Len(messages') = Len(messages) + 1
        /\ IsPrefix(messages, messages')
        /\ Last(messages').from \in {"bot", "system"}
        /\ Cardinality(inflight') = Cardinality(inflight) - 1

\* C1: every call of sendQuestion whose effective question is not blank
\* appends exactly one user turn with the trimmed text when it issues the
\* POST, and exactly one more turn when the POST settles: a bot turn after a
\* reply, a system turn after a failure, whatever the outcome is.
C1_OneUserTurnOneReplyTurn == []C1_Turns /\ [][C1_Start /\ C1_Settle]_vars

\* Two submissions have settled, one with a reply and one with a failure.
C1_Witness ==
    \E c, d \in DOMAIN outcome : outcome[c] = "ok" /\ outcome[d] = "failed"

-----------------------------------------------------------------------------
(* C2 *)

C2_Rejected ==
    /\ error' = ValidationMessage
    /\ UNCHANGED <<messages, loading, question, inflight, started>>

\* C2: a call of sendQuestion whose effective question is empty or white
\* space only sets the error to the validation message, issues no request,
\* appends no turn and leaves the messages, the loading flag and the draft
\* as they were.
C2_BlankQuestionRejected ==
    [][ /\ ((ClickSend \/ PressEnter) /\ IsBlank(question)) => C2_Rejected
        /\ \A i \in DOMAIN messages :
              (ClickFollowUp(i) /\ IsBlank(messages[i].meta.follow_up)) => C2_Rejected
      ]_vars

\* The last call of sendQuestion found a draft of white space and returned
\* at the validation; the validation message is showing.
C2_Witness ==
    /\ lastSend = Sent(Null, <<" ">>, 0)
    /\ question = <<" ">>
    /\ error = ValidationMessage

-----------------------------------------------------------------------------
(* C3 *)

\* C3: at most one POST submission is outstanding in every state reached
\* through the rendered controls and the settlements.
C3_AtMostOneOutstanding == Cardinality(inflight) <= 1

-----------------------------------------------------------------------------
(* C4 *)

\* C4: the loading flag is always released: once the request of a call that
\* set it settles, with a reply or with a failure, loading is false again,
\* so, every request settling in the end, loading never stays true.
C4_LoadingReleased == loading ~> ~loading

\* A submission has failed and left the composer enabled.
C4_Witness ==
    /\ ~loading
    /\ inflight = {}
    /\ \E c \in DOMAIN outcome : outcome[c] = "failed"

-----------------------------------------------------------------------------
(* C5 *)

RECURSIVE UserTexts(_)
UserTexts(msgs) ==
    IF msgs = <<>> THEN <<>>
    ELSE IF Head(msgs).from = "user"
         THEN <<Head(msgs).text>> \o UserTexts(Tail(msgs))
         ELSE UserTexts(Tail(msgs))

C5_StartOrder ==
    /\ Len(UserTexts(messages)) = Len(started)
    /\ \A c \in DOMAIN started : UserTexts(messages)[c] = started[c].question

\* C5: the message list is append-only: over every step the old list is a
\* prefix of the new one, so no turn is changed, removed or moved; and the
\* user turns stand in the order in which their submissions were started.
C5_AppendOnlyInOrder == []C5_StartOrder /\ [][IsPrefix(messages, messages')]_vars

\* The greeting arrived between two submissions, the first of which has
\* settled: turns of every origin have been appended in some interleaving.
C5_Witness ==
    /\ Len(messages) >= 4
    /\ messages[1].from = "user"
    /\ \E i \in DOMAIN messages : i > 1 /\ messages[i].id[2] = WelcomeCall
    /\ Last(messages).from = "user"
    /\ Last(messages).id[2] = 2

-----------------------------------------------------------------------------
(* C6 *)

C6_Text(data) ==
    CASE data.answer # Null -> data.answer
      [] data.answer = Null /\ data.follow_up # Null -> data.follow_up
      [] data.answer = Null /\ data.follow_up = Null -> <<"I don't know.">>

\* C6: a submission that succeeds appends a bot turn whose text is the
\* reply's answer if that is not null, else its follow_up if that is not
\* null, else "I don't know."; the reply itself is the turn's meta.
C6_BotTextAndMeta ==
    [][ \A r \in inflight : \A data \in Replies :
            SettleOk(r, data) =>
                /\ Len(messages') = Len(messages) + 1
                /\ Last(messages').from = "bot"
                /\ Last(messages').text = C6_Text(data)
                /\ Last(messages').meta = data
      ]_vars

\* Bot turns of submissions show each of the three cases: the answer (with
\* a follow_up present too), the follow_up, and the fixed text.
C6_Witness ==
    /\ \E i \in DOMAIN messages :
          /\ messages[i].from = "bot" /\ messages[i].id[2] > 0
          /\ messages[i].meta.answer = Null /\ messages[i].meta.follow_up # Null
          /\ messages[i].text = messages[i].meta.follow_up
    /\ \E i \in DOMAIN messages :
          /\ messages[i].from = "bot" /\ messages[i].id[2] > 0
          /\ \/ /\ messages[i].meta.answer = Null /\ messages[i].meta.follow_up = Null
                /\ messages[i].text = <<"I don't know.">>
             \/ /\ messages[i].meta.answer # Null /\ messages[i].meta.follow_up # Null
                /\ messages[i].text = messages[i].meta.answer

-----------------------------------------------------------------------------
(* C7 *)

C7_IsFallbackTurn(m) ==
    /\ m.from = "bot"
    /\ m.text = WelcomeFallbackText
    /\ m.meta.confidence = 100
    /\ m.meta.sources = <<>>
    /\ m.meta.cached = FALSE
    /\ m.meta.follow_up = Null

\* The error shows the message of a failure only when a submission failed.
C7_NoErrorFromGreeting ==
    (\A c \in DOMAIN outcome : outcome[c] # "failed") =>
        error \in {Null, ValidationMessage}

\* C7: when the greeting fetch has failed, the first turn of the list is a
\* bot turn with the fallback text and the fallback meta, and the failure
\* has not set the error, however the settlement interleaves with the
\* user's submissions.
C7_FallbackGreetingFirst ==
    welcome = "failed" =>
        /\ messages # <<>>
        /\ C7_IsFallbackTurn(messages[1])
        /\ C7_NoErrorFromGreeting

\* What the code does keep of C7: the fallback turn is in the list exactly
\* once, at the place the list ended when the fetch failed, which is the
\* first place when no submission began before; the error is not set.
C7_FallbackGreetingAppended ==
    welcome = "failed" =>
        /\ Cardinality(TurnsOf(WelcomeCall)) = 1
        /\ \A i \in TurnsOf(WelcomeCall) :
              /\ C7_IsFallbackTurn(messages[i])
              /\ \A j \in 1..(i - 1) : messages[j].id[2] # WelcomeCall
        /\ C7_NoErrorFromGreeting

-----------------------------------------------------------------------------
(* C8 *)

C8_FailedTurn(f, text) ==
    /\ error' = ThrownBy(f).message
    /\ Len(messages') = Len(messages) + 1
    /\ IsPrefix(messages, messages')
    /\ Last(messages').from = "system"
    /\ Last(messages').text = text

\* C8 as claimed: a failed submission leaves the failure's message in the
\* error state and appends one system turn whose text is that same message.
C8_SystemTextIsErrorMessage ==
    [][ \A r \in inflight : \A f \in Failures :
            SettleFail(r, f) => C8_FailedTurn(f, error') ]_vars

\* C8 as amended: a failed submission leaves the failure's message in the
\* error state and appends exactly one system turn, and no bot turn, whose
\* text is "Error: " followed by that same message.
C8_SystemTextIsPrefixedErrorMessage ==
    [][ \A r \in inflight : \A f \in Failures :
            SettleFail(r, f) => C8_FailedTurn(f, <<"Error: ">> \o error') ]_vars

\* The list ends with the system turn of a submission that got a non-2xx
\* status, and the error indicator shows the message of that failure.
C8_Witness ==
    /\ messages # <<>>
    /\ Last(messages).from = "system"
    /\ error = <<"Server ", "5", "0", "0", ": ", "a">>
    /\ Last(messages).text = <<"Error: ">> \o error
    /\ outcome[Last(messages).id[2]] = "failed"

-----------------------------------------------------------------------------
(* C9 *)

C9_Submitted(y) ==
    /\ lastSend.call \in DOMAIN started
    /\ IsTrimOf(started[lastSend.call].question, y)
    /\ \A i \in UserTurnsOf(lastSend.call) : IsTrimOf(messages[i].text, y)
    /\ UserTurnsOf(lastSend.call) # {}

\* C9 as claimed: a click on a rendered follow-up with text Y starts a
\* submission whose user turn and POST body carry Y trimmed, whatever the
\* draft holds.
C9_FollowUpClickSubmits == lastSend.q # Null => C9_Submitted(lastSend.q)

\* C9 as amended: a click on a rendered follow-up with text Y that is not
\* white space only starts a submission whose user turn and POST body carry
\* Y trimmed, whatever the draft holds; when Y is white space only the click
\* starts no submission; the draft contributes in neither case.
C9_FollowUpClickSubmitsUnlessBlank ==
    lastSend.q # Null =>
        IF IsBlank(lastSend.q) THEN lastSend.call = 0 ELSE C9_Submitted(lastSend.q)

\* A follow-up was clicked while the draft held a text, and the submission
\* that started carries the follow-up's letter.
C9_Witness ==
    /\ lastSend.q = <<" ", "b">>
    /\ lastSend.hadDraft
    /\ lastSend.call \in DOMAIN started
    /\ started[lastSend.call].question = <<"b">>

-----------------------------------------------------------------------------
(* C10 *)

\* C10: loading is true whenever a POST request is outstanding.
C10_LoadingWhileOutstanding == inflight # {} => loading

====
